---- MODULE Spec2Model ----
(***************************************************************************)
(* Model of smmap/mman.py: WindowCursor, StaticWindowMapManager and        *)
(* SlidingWindowMapManager.  Objects (region lists, regions, cursors) are  *)
(* identified by small integers; an object lives as long as something      *)
(* references it, which is how CPython's reference counts behave.          *)
(***************************************************************************)
EXTENDS Integers, Sequences, FiniteSets, TLC

\* ---------------------------------------------------------------- bounds
NumCursors == 2
MaxClock == 3

\* ------------------------------------------------------- the environment
None == 0
PageSize == 2
Files == {1, 2}
FileSize(f) == IF f = 1 THEN 5 ELSE 2
\* The use_region(offset, size) requests made of each file; the last of
\* each is the request at the end of the file.
Requests(f) ==
  IF f = 1
  THEN {<<1, 0>>, <<1, 1>>, <<3, 0>>, <<3, 1>>, <<4, 0>>, <<4, 1>>, <<FileSize(f), 0>>}
  ELSE {<<0, 0>>, <<0, 1>>, <<FileSize(f), 0>>}
CursorIds == 1..NumCursors

\* The manager configurations explored (constructor arguments of the two
\* manager classes).
Configs ==
  { [flavour |-> "static",  window_size |-> 0, max_memory_size |-> 5, max_handle_count |-> 1,
     paths |-> {1, 2}],
    [flavour |-> "sliding", window_size |-> 2, max_memory_size |-> 4, max_handle_count |-> 2,
     paths |-> {1}],
    [flavour |-> "sliding", window_size |-> 3, max_memory_size |-> 6, max_handle_count |-> 2,
     paths |-> {1, 2}],
    [flavour |-> "sliding", window_size |-> 2, max_memory_size |-> 4, max_handle_count |-> 1,
     paths |-> {1}] }

VARIABLES
  flavour,           \* "static" or "sliding": which manager class was built
  window_size,       \* StaticWindowMapManager._window_size
  max_memory_size,   \* _max_memory_size
  max_handle_count,  \* _max_handle_count
  paths,             \* the files the clients open
  fdict,             \* _fdict: path_or_fd -> region list (object id)
  rlists,            \* live MapRegionList objects: id -> [path, regs]
  regions,           \* live MapRegion objects: id -> [b, size, uc, last_used]
  memory_size,       \* _memory_size
  handle_count,      \* _handle_count
  cursors,           \* WindowCursor objects: slot -> record
  clock,             \* number of increment_usage_count calls so far
  last,              \* the call that has just returned to the client, if any
  pc                 \* where the call in progress stands, when it is followed step by step

vars == <<flavour, window_size, max_memory_size, max_handle_count, paths, fdict, rlists,
          regions, memory_size, handle_count, cursors, clock, last, pc>>

\* ------------------------------------------------------------- helpers
Min(x, y) == IF x < y THEN x ELSE y

Range(f) == {f[x] : x \in DOMAIN f}

SeqRange(s) == {s[i] : i \in 1..Len(s)}

NewId(dom) == CHOOSE i \in 1..(Cardinality(dom) + 1) : i \notin dom

RemoveAt(s, i) == SubSeq(s, 1, i - 1) \o SubSeq(s, i + 1, Len(s))

InsertAt(s, i, x) == SubSeq(s, 1, i) \o <<x>> \o SubSeq(s, i + 1, Len(s))

Extend(f, k, v) == [x \in DOMAIN f \cup {k} |-> IF x = k THEN v ELSE f[x]]

Restrict(f, S) == [x \in DOMAIN f \cap S |-> f[x]]

\* ------------------------------------------------- util.MapWindow
align_to_mmap(num, round_up) ==
  LET res == (num \div PageSize) * PageSize
  IN IF round_up /\ res # num THEN res + PageSize ELSE res

MapWindow(ofs, size) == [ofs |-> ofs, size |-> size]

window_ofs_end(w) == w.ofs + w.size

extend_left_to(w, left, max_size) ==
  LET nleft == w.ofs - window_ofs_end(left)
      grow == IF max_size > w.size THEN Min(nleft, max_size - w.size) ELSE 0
  IN [ofs |-> w.ofs - grow, size |-> w.size + grow]

extend_right_to(w, right, max_size) ==
  LET nright == right.ofs - window_ofs_end(w)
      grow == IF max_size > w.size THEN Min(nright, max_size - w.size) ELSE 0
  IN [ofs |-> w.ofs, size |-> w.size + grow]

align(w) ==
  LET nofs == align_to_mmap(w.ofs, FALSE)
      nend == align_to_mmap(window_ofs_end(w), TRUE)
  IN [ofs |-> nofs, size |-> nend - nofs]

\* ------------------------------------------------- util.MapRegion
\* A new region maps [ofs, min(ofs + size, file_size)).
MapRegion(path, ofs, size) ==
  [b |-> ofs, size |-> Min(size, FileSize(path) - ofs), uc |-> 0, last_used |-> 0]

region_ofs_end(r) == r.b + r.size

includes_ofs(r, ofs) == r.b <= ofs /\ ofs < r.b + r.size

increment_usage_count(r, now) == [r EXCEPT !.uc = r.uc + 1, !.last_used = now]

from_region(r) == MapWindow(r.b, r.size)

\* ------------------------------------------------- reference counts
NoCursor == [alive |-> FALSE, rlist |-> None, region |-> None, ofs |-> 0, size |-> 0]

\* The regions some cursor references through _region.
Pinned(cs) == {cs[c].region : c \in {d \in DOMAIN cs : cs[d].alive /\ cs[d].region # None}}

\* MapRegion.client_count() - 2 as evaluated inside the scan of
\* _collect_lru_region: the references other than the list's and the loop
\* variable's, i.e. the cursors holding the region.
RegionClients(cs, region) ==
  Cardinality({c \in DOMAIN cs : cs[c].alive /\ cs[c].region = region})

\* MapRegionList.client_count(): the strong references to the list, i.e. the
\* manager's (when _fdict holds the list) and those of the live cursors.
ListClientCount(M, cs, a) ==
  (IF a \in Range(M.fdict) THEN 1 ELSE 0)
  + Cardinality({d \in DOMAIN cs : cs[d].alive /\ cs[d].rlist = a})

\* The manager's mutable state, passed through the internal methods.
Mgr == [fdict |-> fdict, rlists |-> rlists, regions |-> regions,
        mem |-> memory_size, hc |-> handle_count]

\* Objects nothing references any more are deallocated.
Gc(M, cs) ==
  LET liveLists == Range(M.fdict)
                   \cup {cs[c].rlist : c \in {d \in DOMAIN cs : cs[d].alive}}
      lists == Restrict(M.rlists, liveLists)
      liveRegs == UNION {SeqRange(lists[a].regs) : a \in DOMAIN lists} \cup Pinned(cs)
  IN [M EXCEPT !.rlists = lists, !.regions = Restrict(M.regions, liveRegs)]

\* ------------------------------------------------- eviction
LastFile == CHOOSE f \in Files : \A g \in Files : g <= f

\* The order in which _collect_lru_region visits the regions: the lists of
\* _fdict in key order, each list front to back.
RECURSIVE ScanFrom(_, _)
ScanFrom(M, f) ==
  IF f > LastFile THEN <<>>
  ELSE (IF f \in DOMAIN M.fdict THEN M.rlists[M.fdict[f]].regs ELSE <<>>)
       \o ScanFrom(M, f + 1)

ScanOrder(M) == ScanFrom(M, 1)

EvictableIgnoringPins(cs, region) == TRUE

\* region.client_count() - 2 == 0
Evictable(cs, region) == RegionClients(cs, region) = 0

\* region._uc < lru_region._uc
LessRecentlyUsed(M, region, lru_region) ==
  M.regions[region].uc < M.regions[lru_region].uc

\* One pass of the for-loops: the region the scan settles on, or None.
RECURSIVE ScanLru(_, _, _, _, _)
ScanLru(M, cs, scan, i, lru_region) ==
  IF i > Len(scan) THEN lru_region
  ELSE LET region == scan[i]
       IN IF Evictable(cs, region)
             /\ (lru_region = None \/ LessRecentlyUsed(M, region, lru_region))
          THEN ScanLru(M, cs, scan, i + 1, region)
          ELSE ScanLru(M, cs, scan, i + 1, lru_region)

\* The list of _fdict that holds the region.
ListOf(M, region) ==
  CHOOSE a \in Range(M.fdict) : region \in SeqRange(M.rlists[a].regs)

IndexOf(s, x) == CHOOSE i \in 1..Len(s) : s[i] = x /\ \A j \in 1..(i - 1) : s[j] # x

\* del(lru_list[lru_list.index(lru_region)]) and the two counters.
RemoveRegion(M, lru_region) ==
  LET lru_list == ListOf(M, lru_region)
      regs == M.rlists[lru_list].regs
  IN [M EXCEPT !.rlists[lru_list].regs = RemoveAt(regs, IndexOf(regs, lru_region)),
               !.mem = M.mem - M.regions[lru_region].size,
               !.hc = M.hc - 1]

\* What one eviction is recorded as: the victim (its size, its path and its
\* last_used stamp), the cursors holding it, and the last_used stamps of all
\* the regions no cursor held at that moment.
Eviction(M, cs, lru_region) ==
  [clients |-> RegionClients(cs, lru_region),
   size |-> M.regions[lru_region].size,
   path |-> M.rlists[ListOf(M, lru_region)].path,
   last_used |-> M.regions[lru_region].last_used,
   idle |-> {M.regions[r].last_used :
               r \in {x \in SeqRange(ScanOrder(M)) : RegionClients(cs, x) = 0}}]

\* The loop left after its first removal.
collect_lru_region_once(M, cs, size, log) ==
  IF size = 0 \/ M.mem + size > max_memory_size
  THEN LET lru_region == ScanLru(M, cs, ScanOrder(M), 1, None)
       IN IF lru_region = None
          THEN [M |-> M, log |-> log]
          ELSE [M |-> RemoveRegion(M, lru_region),
                log |-> Append(log, Eviction(M, cs, lru_region))]
  ELSE [M |-> M, log |-> log]

\* _collect_lru_region(size): the while loop.  Returns the manager state and
\* the evictions in order (num_found is their number).
RECURSIVE collect_lru_region(_, _, _, _)
collect_lru_region(M, cs, size, log) ==
  IF size = 0 \/ M.mem + size > max_memory_size
  THEN LET lru_region == ScanLru(M, cs, ScanOrder(M), 1, None)
       IN IF lru_region = None
          THEN [M |-> M, log |-> log]
          ELSE collect_lru_region(RemoveRegion(M, lru_region), cs, size,
                                  Append(log, Eviction(M, cs, lru_region)))
  ELSE [M |-> M, log |-> log]

\* ------------------------------------------------- placement
\* The outcome of the map primitive at this attempt: fails[1] is the first
\* attempt's, fails[2] the retry's.
MapFails(fails, is_recursive) == IF is_recursive THEN fails[2] ELSE fails[1]

\* refused: the map primitive was asked for the region and refused.
Obtained(M, r, log, mapped) ==
  [M |-> M, r |-> r, raised |-> FALSE, log |-> log, mapped |-> mapped, refused |-> FALSE]

\* The handle counted before the map attempt that then fails.
RaisedAfterCounting(M, log) ==
  [M |-> [M EXCEPT !.hc = M.hc + 1], r |-> None, raised |-> TRUE, log |-> log,
   mapped |-> FALSE, refused |-> FALSE]

\* raise: the exception leaves _obtain_region; nothing was counted or inserted.
Raised(M, log) ==
  [M |-> M, r |-> None, raised |-> TRUE, log |-> log, mapped |-> FALSE, refused |-> FALSE]

\* self._handle_count += 1; self._memory_size += r.size(); the list update
\* is the caller's.
AddRegion(M, a, regs, r, region) ==
  [M EXCEPT !.rlists[a].regs = regs,
            !.regions = Extend(M.regions, r, region),
            !.mem = M.mem + region.size,
            !.hc = M.hc + 1]

\* StaticWindowMapManager._obtain_region
RECURSIVE static_obtain_region(_, _, _, _, _, _, _, _)
static_obtain_region(M0, cs, a, offset, size, fails, is_recursive, log0) ==
  LET c1 == IF M0.mem + size > max_memory_size
            THEN collect_lru_region(M0, cs, size, log0)
            ELSE [M |-> M0, log |-> log0]
      M == c1.M
      regs == M.rlists[a].regs
  IN IF Len(regs) > 0
     THEN Obtained(M, regs[1], c1.log, FALSE)
     ELSE IF MapFails(fails, is_recursive)
          THEN IF is_recursive
               THEN [Raised(M, c1.log) EXCEPT !.refused = TRUE]
               ELSE LET c2 == collect_lru_region(M, cs, 0, c1.log)
                    IN [static_obtain_region(c2.M, cs, a, offset, size, fails, TRUE, c2.log)
                          EXCEPT !.refused = TRUE]
          ELSE LET r == NewId(DOMAIN M.regions)
                   region == MapRegion(M.rlists[a].path, 0, FileSize(M.rlists[a].path))
               IN Obtained(AddRegion(M, a, Append(regs, r), r, region), r, c1.log, TRUE)

\* The bisection with "ofs < offset" for "ofs <= offset".
RECURSIVE BisectStrict(_, _, _, _, _)
BisectStrict(M, regs, lo, hi, offset) ==
  IF lo < hi
  THEN LET mid == (lo + hi) \div 2
           r == regs[mid + 1]
       IN IF M.regions[r].b < offset
          THEN IF includes_ofs(M.regions[r], offset)
               THEN r
               ELSE BisectStrict(M, regs, mid + 1, hi, offset)
          ELSE BisectStrict(M, regs, lo, mid, offset)
  ELSE None

\* The bisection of SlidingWindowMapManager._obtain_region; lo, hi and mid
\* are Python (0-based) indices.
RECURSIVE Bisect(_, _, _, _, _)
Bisect(M, regs, lo, hi, offset) ==
  IF lo < hi
  THEN LET mid == (lo + hi) \div 2
           r == regs[mid + 1]
       IN IF M.regions[r].b <= offset
          THEN IF includes_ofs(M.regions[r], offset)
               THEN r
               ELSE Bisect(M, regs, mid + 1, hi, offset)
          ELSE Bisect(M, regs, lo, mid, offset)
  ELSE None

\* The insert position (0-based) that keeps the list sorted by offset.
InsertPos(M, regs, offset) ==
  LET len_regions == Len(regs)
      later == {i \in 1..len_regions : M.regions[regs[i]].b > offset}
  IN IF len_regions = 1
     THEN (IF M.regions[regs[1]].b <= offset THEN 1 ELSE 0)
     ELSE IF later = {} THEN len_regions
          ELSE (CHOOSE i \in later : \A j \in later : i <= j) - 1

\* The neighbours' windows around insert_pos.
LeftWindow(M, regs, insert_pos) ==
  IF insert_pos = 0 THEN MapWindow(0, 0) ELSE from_region(M.regions[regs[insert_pos]])

RightWindow(M, regs, insert_pos, fsize) ==
  IF insert_pos = 0
  THEN (IF Len(regs) # 0 THEN from_region(M.regions[regs[insert_pos + 1]])
        ELSE MapWindow(fsize, 0))
  ELSE (IF insert_pos # Len(regs) THEN from_region(M.regions[regs[insert_pos + 1]])
        ELSE MapWindow(fsize, 0))

ClampRightSkipped(mid, right) == mid

\* if mid.ofs_end() > right.ofs: mid.size = right.ofs - mid.ofs
ClampRight(mid, right) ==
  IF window_ofs_end(mid) > right.ofs
  THEN [ofs |-> mid.ofs, size |-> right.ofs - mid.ofs]
  ELSE mid

\* The window the sliding manager maps for (offset, size) between left and right.
PlanWindow(offset, size, left, right) ==
  ClampRight(align(extend_right_to(extend_left_to(MapWindow(offset, size), left, window_size),
                                   right, window_size)),
             right)

HandleCapOffByOne(M) == M.hc > max_handle_count

\* if self._handle_count >= self._max_handle_count: raise Exception
HandleCapHit(M) == M.hc >= max_handle_count

\* SlidingWindowMapManager._obtain_region
RECURSIVE sliding_obtain_region(_, _, _, _, _, _, _, _)
sliding_obtain_region(M0, cs, a, offset, size, fails, is_recursive, log0) ==
  LET regs0 == M0.rlists[a].regs
      found == Bisect(M0, regs0, 0, Len(regs0), offset)
  IN IF found # None
     THEN Obtained(M0, found, log0, FALSE)
     ELSE LET c1 == IF M0.mem + window_size > max_memory_size
                    THEN collect_lru_region(M0, cs, window_size, log0)
                    ELSE [M |-> M0, log |-> log0]
              M == c1.M
              regs == M.rlists[a].regs
              path == M.rlists[a].path
              insert_pos == InsertPos(M, regs, offset)
              left == LeftWindow(M, regs, insert_pos)
              right == RightWindow(M, regs, insert_pos, FileSize(path))
              mid == PlanWindow(offset, size, left, right)
          IN IF HandleCapHit(M) \/ MapFails(fails, is_recursive)
             THEN IF is_recursive
                  THEN [Raised(M, c1.log) EXCEPT !.refused = ~HandleCapHit(M)]
                  ELSE LET c2 == collect_lru_region(M, cs, 0, c1.log)
                       IN [sliding_obtain_region(c2.M, cs, a, offset, size, fails, TRUE, c2.log)
                             EXCEPT !.refused = @ \/ ~HandleCapHit(M)]
             ELSE LET r == NewId(DOMAIN M.regions)
                      region == MapRegion(path, mid.ofs, mid.size)
                  IN Obtained(AddRegion(M, a, InsertAt(regs, insert_pos, r), r, region),
                              r, c1.log, TRUE)

\* man._obtain_region: the method of the manager class in use.
obtain_region(M, cs, a, offset, size, fails) ==
  IF flavour = "static"
  THEN static_obtain_region(M, cs, a, offset, size, fails, FALSE, <<>>)
  ELSE sliding_obtain_region(M, cs, a, offset, size, fails, FALSE, <<>>)

\* ------------------------------------------------- WindowCursor
\* size = min(size or fsize, man.window_size() or fsize)
EffectiveSize(hint, fsize) ==
  Min(IF hint # 0 THEN hint ELSE fsize, IF window_size # 0 THEN window_size ELSE fsize)

OffsetTooLargeOffByOne(offset, fsize) == offset > fsize

\* if offset >= fsize: return self
OffsetTooLarge(offset, fsize) == offset >= fsize

CursorOfsAbsolute(offset, region) == offset

\* self._ofs = offset - self._region._b
CursorOfs(offset, region) == offset - region.b

CursorSizeUnclamped(size, offset, region) == size

\* self._size = min(size, self._region.ofs_end() - offset)
CursorSize(size, offset, region) == Min(size, region_ofs_end(region) - offset)

\* WindowCursor.unuse_region on a cursor record.  The code leaves _ofs and
\* _size as they were; nothing reads them before use_region or _copy_from
\* of a valid cursor sets them again, and the model clears them.
unuse_region(cur) == [cur EXCEPT !.region = None, !.ofs = 0, !.size = 0]

\* WindowCursor._destroy for cursor c: the pin is dropped and an empty list
\* with client_count() - 2 == 0 is popped from _fdict by its path.  raised:
\* the pop found no such key (KeyError).
destroy(M, cs, c) ==
  LET cur == unuse_region(cs[c])
      a == cur.rlist
      num_clients == ListClientCount(M, cs, a) - 2
      pops == a # None /\ num_clients = 0 /\ Len(M.rlists[a].regs) = 0
      path == M.rlists[a].path
      missing == pops /\ path \notin DOMAIN M.fdict
  IN [M |-> IF pops /\ ~missing
            THEN [M EXCEPT !.fdict = Restrict(M.fdict, DOMAIN M.fdict \ {path})]
            ELSE M,
      cur |-> cur,
      raised |-> missing]

\* cursor views
is_valid(cur) == cur.region # None

ofs_begin(cur) == regions[cur.region].b + cur.ofs

ofs_end(cur) == regions[cur.region].b + cur.ofs + cur.size

cursor_includes_ofs(cur, ofs) == ofs_begin(cur) <= ofs /\ ofs < ofs_end(cur)

\* ------------------------------------------------- history
\* op, c, offset, hint: the call; eof, raised, mapped: how it ended (the
\* end-of-file return, an exception, a new region); hadPin: the cursor held
\* a region before; hits: the extents of the regions of the cursor's list that
\* included the offset before the call; mem0, hc0: the counters before the
\* call; log: the evictions in order; idle0: when use_region went for a
\* region, some region was held by no cursor; refused: the
\* map primitive refused the region; again: the collect() came right after
\* another collect(), which removed found0 regions; rhs, rhsValid: the source
\* of a copy or assign and whether it held a region; old, oldClients: the
\* region the target of an assign held and the cursors that held it.
\* Between calls op is "idle".
NoOp == [op |-> "idle", c |-> None, offset |-> 0, hint |-> 0, eof |-> FALSE,
         raised |-> FALSE, mapped |-> FALSE, hadPin |-> FALSE, hits |-> {},
         mem0 |-> 0, hc0 |-> 0, log |-> <<>>, idle0 |-> FALSE, refused |-> FALSE,
         again |-> FALSE, found0 |-> 0, rhs |-> None, rhsValid |-> FALSE,
         old |-> None, oldClients |-> 0]

Did(op, c) == [NoOp EXCEPT !.op = op, !.c = c, !.mem0 = memory_size, !.hc0 = handle_count]

Extent(region) == <<region.b, region.size>>

\* The call in progress, for the specification that follows use_region and
\* collect statement by statement.  at: the statement it stands at; c, a,
\* offset, size: use_region's cursor, its list and its arguments after the
\* clamp; r: the region it settled on; is_recursive: _obtain_region's flag;
\* lsize, after: the argument of the _collect_lru_region in progress and the
\* statement it returns to; attempts: the map attempts so far (the handle cap
\* counts as one); passes: the _collect_lru_region(0) calls so far; did: the
\* history record in the making.
NoPc == [at |-> "idle", c |-> None, a |-> None, offset |-> 0, size |-> 0, r |-> None,
         is_recursive |-> FALSE, lsize |-> 0, after |-> "idle", attempts |-> 0,
         passes |-> 0, did |-> NoOp]

Idle == last.op = "idle" /\ pc.at = "idle"

\* ------------------------------------------------- the state machine
Init ==
  /\ \E cfg \in Configs :
       /\ flavour = cfg.flavour
       /\ window_size = cfg.window_size
       /\ max_memory_size = cfg.max_memory_size
       /\ max_handle_count = cfg.max_handle_count
       /\ paths = cfg.paths
  /\ fdict = << >>
  /\ rlists = << >>
  /\ regions = << >>
  /\ memory_size = 0
  /\ handle_count = 0
  /\ cursors = [c \in CursorIds |-> NoCursor]
  /\ clock = 0
  /\ last = NoOp
  /\ pc = NoPc

Config == <<flavour, window_size, max_memory_size, max_handle_count, paths>>

MaxOf(S) == IF S = {} THEN 0 ELSE CHOOSE x \in S : \A y \in S : y <= x

\* Object identifiers carry no meaning, so after each operation the live
\* objects are renumbered in a fixed order: lists by path (the one _fdict
\* holds first), regions by list and position.
ListKey(G, a) ==
  G.rlists[a].path * (MaxOf(DOMAIN G.rlists) + 1)
  + (IF G.rlists[a].path \in DOMAIN G.fdict /\ G.fdict[G.rlists[a].path] = a THEN 0 ELSE a)

ListRenaming(G) ==
  [a \in DOMAIN G.rlists |->
     1 + Cardinality({x \in DOMAIN G.rlists : ListKey(G, x) < ListKey(G, a)})]

RegionKey(G, lren, r) ==
  LET K == MaxOf(DOMAIN G.regions) + 1
      holders == {a \in DOMAIN G.rlists : r \in SeqRange(G.rlists[a].regs)}
  IN IF holders = {} THEN (Cardinality(DOMAIN G.rlists) + 1) * K + r
     ELSE LET a == CHOOSE x \in holders : TRUE
          IN lren[a] * K + IndexOf(G.rlists[a].regs, r)

RegionRenaming(G, lren) ==
  [r \in DOMAIN G.regions |->
     1 + Cardinality({x \in DOMAIN G.regions : RegionKey(G, lren, x) < RegionKey(G, lren, r)})]

RenameRegion(rren, r) == IF r \in DOMAIN rren THEN rren[r] ELSE None

\* Cursor slots carry no meaning either: the live cursors are kept in a
\* fixed order in the first slots.
CursorKey(cur) ==
  IF cur.alive THEN ((cur.rlist * 10 + cur.region) * 10 + cur.ofs) * 10 + cur.size
  ELSE 100000

SlotRenaming(cs) ==
  [c \in DOMAIN cs |->
     1 + Cardinality({d \in DOMAIN cs :
                        \/ CursorKey(cs[d]) < CursorKey(cs[c])
                        \/ CursorKey(cs[d]) = CursorKey(cs[c]) /\ d < c})]

\* The manager state and the cursors after an operation: unreferenced
\* objects are freed and the rest renumbered; lst is the history record.
Settle(M, cs, lst) ==
  \E G \in {Gc(M, cs)} :
  \E lren \in {ListRenaming(G)} :
  \E rren \in {RegionRenaming(G, lren)} :
  \E linv \in {[n \in Range(lren) |-> CHOOSE a \in DOMAIN lren : lren[a] = n]} :
  \E rinv \in {[n \in Range(rren) |-> CHOOSE r \in DOMAIN rren : rren[r] = n]} :
  /\ fdict' = [f \in DOMAIN G.fdict |-> lren[G.fdict[f]]]
  /\ rlists' = [n \in DOMAIN linv |->
                  [path |-> G.rlists[linv[n]].path,
                   regs |-> [i \in 1..Len(G.rlists[linv[n]].regs) |->
                               rren[G.rlists[linv[n]].regs[i]]]]]
  /\ regions' = [n \in DOMAIN rinv |-> G.regions[rinv[n]]]
  /\ memory_size' = G.mem
  /\ handle_count' = G.hc
  /\ UNCHANGED Config
  /\ \E cs1 \in {[c \in DOMAIN cs |->
                    IF cs[c].alive
                    THEN [cs[c] EXCEPT !.rlist = lren[@], !.region = RenameRegion(rren, @)]
                    ELSE NoCursor]} :
       \E sren \in {SlotRenaming(cs1)} :
         /\ cursors' = [n \in DOMAIN cs1 |-> cs1[CHOOSE c \in DOMAIN cs1 : sren[c] = n]]
         /\ last' = [lst EXCEPT !.c = IF @ = None THEN None ELSE sren[@],
                                 !.rhs = IF @ = None THEN None ELSE sren[@],
                                 !.old = RenameRegion(rren, @)]

\* An operation that runs as one step.
Becomes(M, cs, lst) == Settle(M, cs, lst) /\ pc' = pc

FreeSlot == CHOOSE c \in CursorIds : ~cursors[c].alive /\ \A d \in CursorIds : d < c => cursors[d].alive

\* StaticWindowMapManager.make_cursor(path_or_fd)
MakeCursor(f) ==
  /\ Idle
  /\ \E c \in CursorIds : ~cursors[c].alive
  /\ LET c == FreeSlot
         known == f \in DOMAIN fdict
         a == IF known THEN fdict[f] ELSE NewId(DOMAIN rlists)
         M == IF known THEN Mgr
              ELSE [Mgr EXCEPT !.fdict = Extend(fdict, f, a),
                               !.rlists = Extend(rlists, a, [path |-> f, regs |-> <<>>])]
     IN Becomes(M, [cursors EXCEPT ![c] = [NoCursor EXCEPT !.alive = TRUE, !.rlist = a]],
                Did("make_cursor", c))
  /\ UNCHANGED clock

\* WindowCursor.use_region(offset, size); fails are the map primitive's outcomes.
UseRegion(c, offset, hint, fails) ==
  /\ Idle
  /\ cursors[c].alive
  /\ LET cur == cursors[c]
         a == cur.rlist
         fsize == FileSize(rlists[a].path)
         size == EffectiveSize(hint, fsize)
         keep == cur.region # None /\ includes_ofs(regions[cur.region], offset)
         cur1 == IF keep THEN cur ELSE unuse_region(cur)
         cs1 == [cursors EXCEPT ![c] = cur1]
         did == [Did("use_region", c) EXCEPT
                   !.offset = offset, !.hint = hint, !.hadPin = cur.region # None,
                   !.idle0 = \E r \in DOMAIN regions : RegionClients(cs1, r) = 0,
                   !.hits = {Extent(regions[r]) :
                               r \in {x \in SeqRange(rlists[a].regs) :
                                        includes_ofs(regions[x], offset)}}]
     IN IF OffsetTooLarge(offset, fsize)
        THEN /\ fails = <<FALSE, FALSE>>
             /\ Becomes(Mgr, cs1, [did EXCEPT !.eof = TRUE])
             /\ UNCHANGED clock
        ELSE \E res \in {IF keep THEN Obtained(Mgr, cur.region, <<>>, FALSE)
                           ELSE obtain_region(Mgr, cs1, a, offset, size, fails)} :
                IF res.raised
                THEN /\ Becomes(res.M, cs1, [did EXCEPT !.raised = TRUE, !.log = res.log,
                                                      !.refused = res.refused])
                     /\ UNCHANGED clock
                ELSE /\ clock < MaxClock
                     /\ LET region == increment_usage_count(res.M.regions[res.r], clock + 1)
                            M == [res.M EXCEPT !.regions[res.r] = region]
                            cur2 == [cur1 EXCEPT !.region = res.r,
                                                 !.ofs = CursorOfs(offset, region),
                                                 !.size = CursorSize(size, offset, region)]
                        IN Becomes(M, [cursors EXCEPT ![c] = cur2],
                                   [did EXCEPT !.log = res.log, !.mapped = res.mapped,
                                               !.refused = res.refused])
                     /\ clock' = clock + 1

\* WindowCursor.unuse_region()
UnuseRegion(c) ==
  /\ Idle
  /\ cursors[c].alive
  /\ Becomes(Mgr, [cursors EXCEPT ![c] = unuse_region(cursors[c])],
             Did("unuse_region", c))
  /\ UNCHANGED clock

\* WindowCursor._copy_from(rhs) on the cursor record cur, given the cursors
\* as they are when it runs.
copy_from(M, cs, c, rhs, now) ==
  LET src == cs[rhs]
      pin == src.region # None
  IN [M |-> IF pin
            THEN [M EXCEPT !.regions[src.region] = increment_usage_count(@, now)]
            ELSE M,
      cs |-> [cs EXCEPT ![c] = [src EXCEPT !.alive = TRUE]],
      pin |-> pin]

\* copy.copy(cursor): WindowCursor.__copy__
Copy(rhs) ==
  /\ Idle
  /\ cursors[rhs].alive
  /\ \E c \in CursorIds : ~cursors[c].alive
  /\ \E c \in {FreeSlot} : \E res \in {copy_from(Mgr, cursors, c, rhs, clock + 1)} :
        /\ res.pin => clock < MaxClock
        /\ Becomes(res.M, res.cs, [Did("copy", c) EXCEPT !.rhs = rhs, !.rhsValid = res.pin])
        /\ clock' = IF res.pin THEN clock + 1 ELSE clock

\* WindowCursor.assign(rhs); rhs may be the cursor itself.
Assign(c, rhs) ==
  /\ Idle
  /\ cursors[c].alive
  /\ cursors[rhs].alive
  /\ \E d \in {destroy(Mgr, cursors, c)} :
     LET cs1 == [cursors EXCEPT ![c] = d.cur]
         did == [Did("assign", c) EXCEPT
                   !.rhs = rhs, !.rhsValid = is_valid(cursors[rhs]),
                   !.old = cursors[c].region,
                   !.oldClients = RegionClients(cursors, cursors[c].region)]
     IN IF d.raised
        THEN /\ Becomes(d.M, cs1, [did EXCEPT !.raised = TRUE])
             /\ UNCHANGED clock
        ELSE \E res \in {copy_from(d.M, cs1, c, rhs, clock + 1)} :
                /\ res.pin => clock < MaxClock
                /\ Becomes(res.M, res.cs, did)
                /\ clock' = IF res.pin THEN clock + 1 ELSE clock

\* The cursor is dropped: WindowCursor.__del__.  An exception raised inside
\* __del__ is ignored by the interpreter.
Drop(c) ==
  /\ Idle
  /\ cursors[c].alive
  /\ \E d \in {destroy(Mgr, cursors, c)} :
        Becomes(d.M, [cursors EXCEPT ![c] = NoCursor],
                [Did("drop", c) EXCEPT !.raised = d.raised])
  /\ UNCHANGED clock

\* StaticWindowMapManager.collect()
Collect ==
  /\ Idle
  /\ \E res \in {collect_lru_region(Mgr, cursors, 0, <<>>)} :
        Becomes(res.M, cursors, [Did("collect", None) EXCEPT !.log = res.log])
  /\ UNCHANGED clock

\* collect() called again as soon as a collect() has returned.
CollectAgain ==
  /\ last.op = "collect"
  /\ \E res \in {collect_lru_region(Mgr, cursors, 0, <<>>)} :
        Becomes(res.M, cursors, [Did("collect", None) EXCEPT !.log = res.log, !.again = TRUE,
                                                             !.found0 = Len(last.log)])
  /\ UNCHANGED clock

\* The call has returned and the client goes on to its next call.
Return ==
  /\ last.op # "idle"
  /\ last' = NoOp
  /\ UNCHANGED <<Config, fdict, rlists, regions, memory_size, handle_count, cursors, clock, pc>>

MapOutcomes == {<<FALSE, FALSE>>, <<TRUE, FALSE>>, <<TRUE, TRUE>>}

Next ==
  \/ \E f \in paths : MakeCursor(f)
  \/ \E c \in CursorIds : \E fails \in MapOutcomes :
       /\ Idle
       /\ cursors[c].alive
       /\ \E req \in Requests(rlists[cursors[c].rlist].path) :
            UseRegion(c, req[1], req[2], fails)
  \/ \E c \in CursorIds : UnuseRegion(c)
  \/ \E rhs \in CursorIds : Copy(rhs)
  \/ \E c, rhs \in CursorIds : Assign(c, rhs)
  \/ \E c \in CursorIds : Drop(c)
  \/ Collect
  \/ CollectAgain
  \/ Return

Spec == Init /\ [][Next]_vars

\* The sliding manager alone.
SpecSliding == Init /\ flavour = "sliding" /\ [][Next]_vars

\* The static manager alone.
SpecStatic == Init /\ flavour = "static" /\ [][Next]_vars

\* ------------------------------------------------- use_region and collect, statement by statement
\* The manager's fields take the values of M.
Store(M) ==
  /\ fdict' = M.fdict
  /\ rlists' = M.rlists
  /\ regions' = M.regions
  /\ memory_size' = M.mem
  /\ handle_count' = M.hc
  /\ UNCHANGED Config

Manager == <<Config, fdict, rlists, regions, memory_size, handle_count>>

LoopStopsAtOnce(M, size) == FALSE

\* while (size == 0) or (self._memory_size + size > self._max_memory_size)
LoopGoesOn(M, size) == size = 0 \/ M.mem + size > max_memory_size

\* man.collect() is called: _collect_lru_region(0) is entered.
CallCollect ==
  /\ Idle
  /\ pc' = [NoPc EXCEPT !.at = "loop", !.lsize = 0, !.after = "return", !.passes = 1,
                        !.did = Did("collect", None)]
  /\ UNCHANGED <<Manager, cursors, clock, last>>

\* cursor.use_region(offset, size) is called and runs up to the call of
\* _obtain_region: the clamp, the check of the region held, the end-of-file
\* return.
CallUseRegion(c, offset, hint) ==
  /\ Idle
  /\ cursors[c].alive
  /\ clock < MaxClock
  /\ LET cur == cursors[c]
         a == cur.rlist
         fsize == FileSize(rlists[a].path)
         keep == cur.region # None /\ includes_ofs(regions[cur.region], offset)
         eof == OffsetTooLarge(offset, fsize)
     IN /\ cursors' = [cursors EXCEPT ![c] = IF keep THEN cur ELSE unuse_region(cur)]
        /\ pc' = [NoPc EXCEPT
                    !.at = IF eof THEN "return" ELSE IF keep THEN "pin" ELSE "obtain",
                    !.c = c, !.a = a, !.offset = offset,
                    !.size = EffectiveSize(hint, fsize),
                    !.r = IF keep THEN cur.region ELSE None,
                    !.did = [Did("use_region", c) EXCEPT
                               !.offset = offset, !.hint = hint, !.eof = eof,
                               !.hadPin = cur.region # None]]
  /\ UNCHANGED <<Manager, clock, last>>

\* _obtain_region is entered, for the first time or by the recursion: the
\* sliding manager's bisection, and the eviction when the budget asks for it.
EnterObtainRegion ==
  /\ pc.at = "obtain"
  /\ LET regs == rlists[pc.a].regs
         found == IF flavour = "static" THEN None
                  ELSE Bisect(Mgr, regs, 0, Len(regs), pc.offset)
         size == IF flavour = "static" THEN pc.size ELSE window_size
     IN pc' = IF found # None
              THEN [pc EXCEPT !.at = "pin", !.r = found]
              ELSE IF memory_size + size > max_memory_size
                   THEN [pc EXCEPT !.at = "loop", !.lsize = size, !.after = "map"]
                   ELSE [pc EXCEPT !.at = "map"]
  /\ UNCHANGED <<Manager, cursors, clock, last>>

\* One iteration of _collect_lru_region's while loop that finds a region.
LoopRemoves ==
  /\ pc.at = "loop"
  /\ LoopGoesOn(Mgr, pc.lsize)
  /\ \E lru_region \in {ScanLru(Mgr, cursors, ScanOrder(Mgr), 1, None)} :
       /\ lru_region # None
       /\ Store(RemoveRegion(Mgr, lru_region))
       /\ pc' = [pc EXCEPT !.did.log = Append(@, Eviction(Mgr, cursors, lru_region))]
  /\ UNCHANGED <<cursors, clock, last>>

\* The loop is left: its condition is false, or the scan found no region
\* (break).
LoopLeaves ==
  /\ pc.at = "loop"
  /\ \/ ~LoopGoesOn(Mgr, pc.lsize)
     \/ ScanLru(Mgr, cursors, ScanOrder(Mgr), 1, None) = None
  /\ pc' = [pc EXCEPT !.at = pc.after]
  /\ UNCHANGED <<Manager, cursors, clock, last>>

\* The rest of _obtain_region: the static manager's "if a", the handle cap,
\* the map primitive (fail: it raises), and the except clause.
TryMap(fail) ==
  /\ pc.at = "map"
  /\ \E a \in {pc.a} : \E regs \in {rlists[pc.a].regs} : \E path \in {rlists[pc.a].path} :
     \E capped \in {flavour = "sliding" /\ HandleCapHit(Mgr)} :
       IF flavour = "static" /\ Len(regs) > 0
       THEN /\ ~fail
            /\ pc' = [pc EXCEPT !.at = "pin", !.r = regs[1]]
            /\ UNCHANGED Manager
       ELSE IF capped \/ fail
       THEN /\ capped => ~fail
            /\ pc' = IF pc.is_recursive
                     THEN [pc EXCEPT !.at = "raise", !.attempts = @ + 1,
                                     !.did.refused = @ \/ ~capped]
                     ELSE [pc EXCEPT !.at = "loop", !.lsize = 0, !.after = "obtain",
                                     !.is_recursive = TRUE, !.attempts = @ + 1,
                                     !.passes = @ + 1, !.did.refused = @ \/ ~capped]
            /\ UNCHANGED Manager
       ELSE \E r \in {NewId(DOMAIN regions)} :
            \E M \in {IF flavour = "static"
                      THEN AddRegion(Mgr, a, Append(regs, r), r,
                                     MapRegion(path, 0, FileSize(path)))
                      ELSE LET insert_pos == InsertPos(Mgr, regs, pc.offset)
                               mid == PlanWindow(pc.offset, pc.size,
                                                 LeftWindow(Mgr, regs, insert_pos),
                                                 RightWindow(Mgr, regs, insert_pos,
                                                             FileSize(path)))
                           IN AddRegion(Mgr, a, InsertAt(regs, insert_pos, r), r,
                                        MapRegion(path, mid.ofs, mid.size))} :
              /\ Store(M)
              /\ pc' = [pc EXCEPT !.at = "pin", !.r = r, !.attempts = @ + 1,
                                  !.did.mapped = TRUE]
  /\ UNCHANGED <<cursors, clock, last>>

\* use_region's last statements: increment_usage_count, _ofs, _size, return self.
PinRegion ==
  /\ pc.at = "pin"
  /\ LET region == increment_usage_count(regions[pc.r], clock + 1)
         cur == [cursors[pc.c] EXCEPT !.region = pc.r,
                                      !.ofs = CursorOfs(pc.offset, region),
                                      !.size = CursorSize(pc.size, pc.offset, region)]
     IN Settle([Mgr EXCEPT !.regions[pc.r] = region], [cursors EXCEPT ![pc.c] = cur], pc.did)
  /\ clock' = clock + 1
  /\ pc' = NoPc

\* The exception leaves _obtain_region and use_region.
RaiseError ==
  /\ pc.at = "raise"
  /\ Settle(Mgr, cursors, [pc.did EXCEPT !.raised = TRUE])
  /\ pc' = NoPc
  /\ UNCHANGED clock

\* collect() returns, or use_region returns at the end of the file.
ReturnEarly ==
  /\ pc.at = "return"
  /\ Settle(Mgr, cursors, pc.did)
  /\ pc' = NoPc
  /\ UNCHANGED clock

\* The call in progress takes its next step.
Running ==
  \/ EnterObtainRegion
  \/ LoopRemoves
  \/ LoopLeaves
  \/ \E fail \in BOOLEAN : TryMap(fail)
  \/ PinRegion
  \/ RaiseError
  \/ ReturnEarly

NextCalls ==
  \/ \E f \in paths : MakeCursor(f)
  \/ \E c \in CursorIds :
       /\ Idle
       /\ cursors[c].alive
       /\ \E req \in Requests(rlists[cursors[c].rlist].path) :
            CallUseRegion(c, req[1], req[2])
  \/ \E c \in CursorIds : UnuseRegion(c)
  \/ \E c \in CursorIds : Drop(c)
  \/ CallCollect
  \/ Running
  \/ Return

\* The calls of use_region and collect followed statement by statement, for
\* clients that make, use, release and drop cursors and collect; a call in
\* progress keeps running (one thread, no blocking statement).
SpecCalls == Init /\ [][NextCalls]_vars /\ WF_vars(Running)

\* ------------------------------------------------- properties
LiveCursors == {c \in CursorIds : cursors[c].alive}

ValidCursors == {c \in LiveCursors : is_valid(cursors[c])}

\* The regions held in the lists of the manager's files table.
TableRegions == UNION {SeqRange(rlists[fdict[f]].regs) : f \in DOMAIN fdict}

RECURSIVE SumSizes(_)
SumSizes(S) ==
  IF S = {} THEN 0
  ELSE LET r == CHOOSE x \in S : TRUE IN regions[r].size + SumSizes(S \ {r})

UsedRegion == last.op = "use_region" /\ ~last.eof /\ ~last.raised

CursorFileSize(c) == FileSize(rlists[cursors[c].rlist].path)

\* C1: eviction never removes a pinned region: every valid cursor's region is
\* in that cursor's list, and every region an eviction removed was held by
\* no cursor at that moment.
C1_PinnedRegionsStay ==
  /\ \A c \in ValidCursors : cursors[c].region \in SeqRange(rlists[cursors[c].rlist].regs)
  /\ \A i \in 1..Len(last.log) : last.log[i].clients = 0

\* An eviction ran inside use_region while another cursor held a region.
C1_Witness ==
  /\ last.op = "use_region"
  /\ Len(last.log) > 0
  /\ \E c \in ValidCursors : c # last.c

\* C2: mapped_memory_size() is the sum of the sizes of the regions in the
\* lists of the files table.
C2_MemoryIsSumOfRegions == memory_size = SumSizes(TableRegions)

\* C3: num_file_handles() is the number of regions in the lists of the files
\* table.
C3_HandlesIsCountOfRegions == handle_count = Cardinality(TableRegions)

\* C4: in the sliding manager the regions of every list are sorted by begin
\* and do not overlap.
C4_SortedNonOverlapping ==
  flavour = "sliding" =>
    \A a \in DOMAIN rlists :
      \A i \in 1..(Len(rlists[a].regs) - 1) :
        LET r == regions[rlists[a].regs[i]]
            n == regions[rlists[a].regs[i + 1]]
        IN r.b < n.b /\ r.b + r.size <= n.b

\* A region was mapped into a list that holds another one, after an eviction
\* ran inside the same placement.
C4_Witness ==
  /\ flavour = "sliding"
  /\ UsedRegion
  /\ last.mapped
  /\ Len(last.log) > 0
  /\ Len(rlists[cursors[last.c].rlist].regs) >= 2

\* C5: after a successful use_region(o, s) with o < file_size the cursor is
\* valid, includes o, has ofs_begin <= o < ofs_end, and its view lies inside
\* the pinned region.
C5_Inclusion ==
  (last.op = "use_region" /\ ~last.raised /\ last.offset < CursorFileSize(last.c)) =>
    LET cur == cursors[last.c]
    IN /\ is_valid(cur)
       /\ cursor_includes_ofs(cur, last.offset)
       /\ ofs_begin(cur) <= last.offset /\ last.offset < ofs_end(cur)
       /\ regions[cur.region].b <= ofs_begin(cur)
       /\ ofs_end(cur) <= region_ofs_end(regions[cur.region])

\* A successful use_region reused a region at an offset past its begin.
C5_Witness ==
  /\ UsedRegion
  /\ ~last.mapped
  /\ last.offset > regions[cursors[last.c].region].b
  /\ regions[cursors[last.c].region].b > 0

\* C6: after a successful use_region(o, s), size() is at most
\* min(s or file_size, window_size or file_size), is at least one byte, and
\* ofs_end() is at most file_size.
C6_Clamp ==
  UsedRegion =>
    LET cur == cursors[last.c]
        fsize == CursorFileSize(last.c)
    IN /\ cur.size <= (IF last.hint # 0 THEN last.hint ELSE fsize)
       /\ cur.size <= (IF window_size # 0 THEN window_size ELSE fsize)
       /\ cur.size >= 1
       /\ ofs_end(cur) <= fsize

\* A request for all available bytes at the last byte of a file got size 1.
C6_Witness ==
  /\ UsedRegion
  /\ last.hint = 0
  /\ last.offset = CursorFileSize(last.c) - 1
  /\ CursorFileSize(last.c) > 1
  /\ cursors[last.c].size = 1

\* C7: use_region at an offset >= file_size raises nothing, leaves the cursor
\* invalid, and changes neither the counters nor any list or region.
C7_EofSentinel ==
  [][(last'.op = "use_region" /\ last'.offset >= FileSize(rlists'[cursors'[last'.c].rlist].path)) =>
       /\ ~last'.raised
       /\ ~is_valid(cursors'[last'.c])
       /\ memory_size' = memory_size
       /\ handle_count' = handle_count
       /\ fdict' = fdict
       /\ rlists' = rlists
       /\ regions' = regions
       /\ ~last'.mapped
       /\ last'.log = <<>>]_vars

\* A cursor that held a region asked for the end of its file.
C7_Witness ==
  /\ last.op = "use_region"
  /\ last.offset >= CursorFileSize(last.c)
  /\ last.hadPin
  /\ memory_size > 0

\* C8: in the sliding manager, when a region of the cursor's list includes
\* the offset, use_region pins that region, maps nothing, evicts nothing and
\* leaves both counters as they were.
C8_Reuse ==
  (flavour = "sliding" /\ last.op = "use_region" /\ last.hits # {}) =>
    /\ ~last.raised
    /\ is_valid(cursors[last.c])
    /\ Extent(regions[cursors[last.c].region]) \in last.hits
    /\ ~last.mapped
    /\ last.log = <<>>
    /\ memory_size = last.mem0
    /\ handle_count = last.hc0

\* A cursor holding no region found, by bisection, the second region of a
\* list at its first byte.
C8_Witness ==
  /\ flavour = "sliding"
  /\ last.op = "use_region"
  /\ last.hits # {}
  /\ ~last.hadPin
  /\ Len(rlists[cursors[last.c].rlist].regs) >= 2
  /\ last.offset = regions[cursors[last.c].region].b
  /\ last.offset > 0

C10_HandleCap ==
  /\ handle_count <= max_handle_count
  /\ (last.op = "use_region" /\ last.mapped) => last.hc0 - Len(last.log) < max_handle_count

\* The sizes of the regions the call evicted, summed.
RECURSIVE EvictedBytes(_)
EvictedBytes(log) ==
  IF log = <<>> THEN 0 ELSE Head(log).size + EvictedBytes(Tail(log))

FailedUse == last.op = "use_region" /\ last.raised

\* C11 as stated: a failed use_region leaves the counters as before the call,
\* inserts no region, and the cursor still pins what it pinned before.
C11_FailureAtomic ==
  FailedUse =>
    /\ memory_size = last.mem0
    /\ handle_count = last.hc0
    /\ ~last.mapped
    /\ (last.hadPin => is_valid(cursors[last.c]))

\* C11 amended: a failed use_region maps and inserts nothing and raises
\* neither counter: each counter is its value before the call less the idle
\* regions evicted during the attempt; the cursor is left invalid.
C11_FailureMapsNothing ==
  FailedUse =>
    /\ memory_size = last.mem0 - EvictedBytes(last.log)
    /\ handle_count = last.hc0 - Len(last.log)
    /\ ~last.mapped
    /\ ~is_valid(cursors[last.c])

\* A use_region failed on a cursor that held a region, after evicting.
C11_Witness ==
  /\ FailedUse
  /\ last.hadPin
  /\ Len(last.log) > 0

\* C12: every region the sliding manager created has size <= window_size.
C12_WindowBound ==
  flavour = "sliding" => \A r \in DOMAIN regions : regions[r].size <= window_size

\* use_region went for a region at an offset below the file size that no
\* region of the cursor's list included, while every region was held by
\* some cursor.
NothingToEvict ==
  /\ last.op = "use_region"
  /\ ~last.eof
  /\ last.hits = {}
  /\ ~last.idle0

\* The placement's tests of the two budgets, on the counters before the call.
OverMemory ==
  last.mem0 + (IF flavour = "sliding" THEN window_size
               ELSE EffectiveSize(last.hint, CursorFileSize(last.c))) > max_memory_size

AtHandleCap == last.hc0 >= max_handle_count

\* C13 as stated: with nothing to evict and a budget (memory or handles) in
\* the way, use_region succeeds when the map primitive does.
C13_OvershootNotError ==
  (NothingToEvict /\ (OverMemory \/ AtHandleCap) /\ ~last.refused) => ~last.raised

\* C13 amended: with nothing to evict, use_region maps the region whenever
\* the map primitive does, however far over max_memory that takes it, unless
\* the sliding manager is at its handle cap; at the cap it fails.
C13_MemoryOvershootOnly ==
  /\ (NothingToEvict /\ ~last.refused /\ ~(flavour = "sliding" /\ AtHandleCap))
       => ~last.raised /\ last.mapped
  /\ (NothingToEvict /\ flavour = "sliding" /\ AtHandleCap) => last.raised

\* A region was mapped over the memory budget while another cursor held the
\* only other region.
C13_Witness ==
  /\ flavour = "sliding"
  /\ NothingToEvict
  /\ OverMemory
  /\ last.mapped
  /\ memory_size > max_memory_size
  /\ \E c \in ValidCursors : c # last.c

\* StaticWindowMapManager.num_open_files(): the lists of _fdict that hold a
\* region.
num_open_files == Cardinality({f \in DOMAIN fdict : Len(rlists[fdict[f]].regs) > 0})

\* C14: whenever no cursor holds a pin, collect() leaves both counters and
\* num_open_files at 0.
C14_CollectReturnsToZero ==
  (last.op = "collect" /\ ValidCursors = {}) =>
    /\ memory_size = 0
    /\ handle_count = 0
    /\ num_open_files = 0

\* C15: a collect() issued right after a collect() returns 0 and changes
\* neither the counters nor any list; the first one returned the number of
\* regions it removed and left no evictable region in the files table.
C15_CollectIdempotent ==
  [][(last'.op = "collect" /\ last'.again) =>
       /\ Len(last'.log) = 0
       /\ memory_size' = memory_size
       /\ handle_count' = handle_count
       /\ fdict' = fdict
       /\ rlists' = rlists
       /\ regions' = regions
       /\ handle_count = last.hc0 - Len(last.log)
       /\ \A r \in TableRegions : RegionClients(cursors, r) > 0]_vars

\* The second collect() ran after one that removed a region and left a
\* pinned one behind.
C15_Witness ==
  /\ last.op = "collect"
  /\ last.again
  /\ last.found0 > 0
  /\ TableRegions # {}

\* C16: a list that has no regions and that no cursor references is not in
\* the files table.
C16_NoEmptyUnreferencedList ==
  \A f \in DOMAIN fdict :
    Len(rlists[fdict[f]].regs) = 0 => \E c \in LiveCursors : cursors[c].rlist = fdict[f]

CopiedOrAssigned == last.op \in {"copy", "assign"} /\ last.rhsValid

\* C17: after c2 = copy(c1) or c2.assign(c1) with c1 valid, c2 is valid with
\* c1's region, offset and size; the region counts both cursors, so that it
\* is not evictable while either holds it; assign released what c2 held.
C17_CopyAssignDuplicatePin ==
  /\ CopiedOrAssigned =>
        LET c2 == cursors[last.c]
            c1 == cursors[last.rhs]
        IN /\ ~last.raised
           /\ is_valid(c2)
           /\ c2.region = c1.region /\ c2.ofs = c1.ofs /\ c2.size = c1.size
           /\ RegionClients(cursors, c2.region) >= (IF last.c = last.rhs THEN 1 ELSE 2)
           /\ Evictable(cursors, c2.region) = FALSE
  /\ (last.op = "assign" /\ ~last.raised /\ last.old # None
        /\ last.old # cursors[last.c].region)
       => RegionClients(cursors, last.old) = last.oldClients - 1
  /\ \A i \in 1..Len(last.log) : last.log[i].clients = 0

\* C18: static placement on a list that already holds its region returns
\* that region: nothing is evicted, nothing is mapped, and the counters stay.
C18_StaticReuseDoesNothingElse ==
  (flavour = "static" /\ last.op = "use_region" /\ ~last.eof /\ last.hits # {}) =>
    /\ ~last.raised
    /\ ~last.mapped
    /\ last.log = <<>>
    /\ memory_size = last.mem0
    /\ handle_count = last.hc0

\* C19: when the static manager maps a file into a list without a region and
\* memory_in_use + file_size > max_memory, eviction is attempted first,
\* whatever the size hint: an idle region of the files table was evicted, or
\* there was none.
C19_StaticEvictsByFileSize ==
  (/\ flavour = "static"
   /\ last.op = "use_region"
   /\ last.mapped
   /\ last.hits = {}
   /\ last.mem0 + CursorFileSize(last.c) > max_memory_size)
  => \/ Len(last.log) > 0
     \/ \A r \in TableRegions : RegionClients(cursors, r) > 0

\* C20: after a use_region that mapped a region, both counters are within
\* their budgets, or no region of the files table is evictable.
C20_BudgetOutcome ==
  (last.op = "use_region" /\ last.mapped) =>
    \/ memory_size <= max_memory_size /\ handle_count <= max_handle_count
    \/ \A r \in TableRegions : RegionClients(cursors, r) > 0


\* No region of the files table is free for eviction.
NoneEvictable == \A r \in TableRegions : ~Evictable(cursors, r)

\* An iteration of the eviction loop that stays in the loop removes exactly
\* one region, an evictable one, and counts it off.
OneRegionPerIteration ==
  pc.at = "loop" /\ pc'.at = "loop" =>
    /\ TableRegions' \subseteq TableRegions
    /\ Cardinality(TableRegions') = Cardinality(TableRegions) - 1
    /\ \A r \in TableRegions \ TableRegions' :
         /\ Evictable(cursors, r)
         /\ memory_size' = memory_size - regions[r].size
    /\ handle_count' = handle_count - 1
    /\ Len(pc'.did.log) = Len(pc.did.log) + 1

\* The loop is left without a removal, and only when no evictable region is
\* left or, with a size to make room for, when the size fits.
LoopStops ==
  pc.at = "loop" /\ pc'.at # "loop" =>
    /\ UNCHANGED Manager
    /\ pc'.at = pc.after
    /\ \/ NoneEvictable
       \/ pc.lsize # 0 /\ memory_size + pc.lsize <= max_memory_size

\* A map attempt that fails, or the handle cap: the first one starts a full
\* eviction pass and the placement is entered again, the second one raises.
FailureRetriesOnce ==
  pc.at = "map" /\ pc'.at \notin {"map", "pin"} =>
    /\ UNCHANGED Manager
    /\ IF pc.attempts = 0
       THEN pc'.at = "loop" /\ pc'.lsize = 0 /\ pc'.after = "obtain" /\ pc'.passes = 1
       ELSE pc'.at = "raise"

\* At most two attempts; the second comes after exactly one full pass, which
\* left nothing to evict; the error is raised after the second only.
RetryBounded ==
  /\ pc.attempts <= 2
  /\ pc.did.op = "use_region" => pc.passes <= 1
  /\ pc.attempts = 2 => pc.passes = 1
  /\ pc.at = "map" /\ pc.passes = 1 => pc.attempts = 1 /\ NoneEvictable
  /\ pc.at = "raise" => pc.attempts = 2

\* C21: every call of use_region and of collect terminates; an iteration of
\* the eviction loop removes exactly one region and the loop stops when no
\* evictable region is left; a placement whose map attempt fails (or hits the
\* handle cap) runs one full eviction pass and retries exactly once, and the
\* error propagates if the retry fails too.
C21_TerminatesWithSingleRetry ==
  /\ (pc.at # "idle") ~> (pc.at = "idle")
  /\ [][OneRegionPerIteration /\ LoopStops /\ FailureRetriesOnce]_vars
  /\ []RetryBounded

\* The retry failed after a full pass that evicted a region: the error is
\* about to leave use_region.
C21_Witness == pc.at = "raise" /\ Len(pc.did.log) > 0 /\ pc.passes = 1


\* C22: every associated cursor's RegionList is the one the files table
\* holds under its file, and no file has two RegionLists.
C22_NoOrphanList ==
  /\ \A c \in LiveCursors :
       LET a == cursors[c].rlist
       IN a # None =>
            /\ rlists[a].path \in DOMAIN fdict
            /\ fdict[rlists[a].path] = a
  /\ \A a, b \in DOMAIN rlists : rlists[a].path = rlists[b].path => a = b

====
